---- MODULE Spec2Model ----
(***************************************************************************)
(* Verification model of the portfolio page's client-side state machines:  *)
(*   - MainLayout's scroll spy (activeSection, the throttled scroll        *)
(*     handler, the [activeSection] effect) and Navigation.handleNavClick; *)
(*   - the hooks useIntersectionObserver,                                  *)
(*     useStaggeredIntersectionObserver and useScrollAnimation.            *)
(*   - Projects with its ProjectModal, Modal's scroll lock and Contact's   *)
(*     copy-to-clipboard indicator.                                        *)
(* React is modelled at the granularity of its callbacks: an event handler *)
(* or a frame callback is one step, a committed state change marks the     *)
(* component's effect as pending, and the effect (cleanup, then setup) is  *)
(* a later step of its own.                                                *)
(***************************************************************************)
EXTENDS Integers, Sequences, FiniteSets, TLC

\* ------------------------------------------------------------------ bounds
\* Largest scroll offset the environment produces (layout units).
MaxScroll == 4
\* window.innerHeight, in layout units.
ViewportHeight == 2
\* Largest number of frame callbacks that may be pending at once.
MaxPending == 2
\* Largest itemCount of useStaggeredIntersectionObserver.
MaxItems == 3
\* Largest staggerDelay, in clock ticks.
MaxDelay == 2
\* Largest number of images of a project.
MaxImages == 3
\* Largest number of copies of the email that are in flight or whose
\* timeout is pending.
MaxCopies == 2

\* Contact's setTimeout delay of 2000 ms, in seconds.
CopiedTimeout == 2

\* ------------------------------------------------------- MainLayout: data
sections == <<"hero", "experience", "projects", "education", "skills", "contact">>

SectionId == {sections[i] : i \in DOMAIN sections}

None == "none"

\* Geometries the document can have: per region, whether getElementById
\* finds it, its document offset (rect.top + scrollY) and its height.  For a
\* region that is not found, top and height are those its element would
\* have had; handleScroll never reads them.
stacked ==
  [present |-> <<TRUE, TRUE, TRUE, TRUE, TRUE, TRUE>>,
   top     |-> <<0, 2, 4, 6, 8, 10>>,
   height  |-> <<2, 2, 2, 2, 2, 2>>]

Layouts ==
  { \* six stacked regions of one viewport each
    stacked,
    \* uneven heights, one region of height zero
    [present |-> <<TRUE, TRUE, TRUE, TRUE, TRUE, TRUE>>,
     top     |-> <<0, 1, 4, 6, 6, 7>>,
     height  |-> <<1, 3, 2, 0, 1, 3>>],
    \* only two regions are found, with gaps between them
    [present |-> <<FALSE, TRUE, FALSE, FALSE, TRUE, FALSE>>,
     top     |-> <<0, 1, 0, 0, 5, 0>>,
     height  |-> <<0, 2, 0, 0, 3, 0>>],
    \* hero and projects are found, with a gap between them
    [present |-> <<TRUE, FALSE, TRUE, FALSE, FALSE, FALSE>>,
     top     |-> <<0, 2, 4, 0, 0, 0>>,
     height  |-> <<2, 2, 2, 0, 0, 0>>],
    \* hero is found but has no height; experience follows it
    [present |-> <<TRUE, TRUE, FALSE, FALSE, FALSE, FALSE>>,
     top     |-> <<0, 0, 0, 0, 0, 0>>,
     height  |-> <<0, 2, 0, 0, 0, 0>>] }

VARIABLES
  layout,         \* the document geometry (fixed during a behaviour)
  scrollY,        \* window.scrollY
  mounted,        \* MainLayout is mounted
  activeSection,  \* MainLayout's state
  effectPending,  \* the [activeSection] effect has yet to run for the last commit
  subscribed,     \* a throttledHandleScroll listener is registered on window
  closureActive,  \* activeSection as captured by the registered closure
  ticking,        \* the registered closure's ticking flag
  frames,         \* pending requestAnimationFrame callbacks, oldest first
  scrollTarget,   \* the region last passed to scrollIntoView, or None
  lastOp,         \* the operation that made the last step
  clickLatch,     \* the region of the last navigation click while no scroll
                  \* event has arrived since, else None
  interacted      \* a scroll event or a navigation click has happened

layoutVars == <<layout, scrollY, mounted, activeSection, effectPending, subscribed,
                closureActive, ticking, frames, scrollTarget, lastOp, clickLatch,
                interacted>>

\* One instance of useStaggeredIntersectionObserver or of useScrollAnimation,
\* which contains one instance of useIntersectionObserver.  Time is counted
\* in ticks of the unit staggerDelay and animationDelay are multiples of.
VARIABLES
  hook,                 \* the hook the component calls
  ioSupported,          \* window.IntersectionObserver is defined
  erred,                \* an effect of the hook has thrown
  observations,         \* number of observe(element) not yet undone by unobserve
  animationDelay,       \* the option animationDelay of useScrollAnimation
  animTimer,            \* the ticks left on useScrollAnimation's timeout, or Off
  shouldAnimate,        \* state of useScrollAnimation
  hookMounted,          \* the component using the hook is mounted
  element,              \* elementRef.current is an element (not null)
  prefersReducedMotion, \* matchMedia('(prefers-reduced-motion: reduce)').matches
  triggerOnce,          \* the option triggerOnce
  itemCount,            \* the argument itemCount
  staggerDelay,         \* the option staggerDelay
  isIntersecting,       \* state of useIntersectionObserver
  hasTriggered,         \* state of useIntersectionObserver
  observing,            \* an IntersectionObserver observes the element
  obsHasTriggered,      \* hasTriggered as captured by that observer's callback
  obsPending,           \* the observer effect has yet to run for the last commit
  visibleItems,         \* state of useStaggeredIntersectionObserver
  timers,               \* per item, the ticks left on its timeout, or Off
  stagPending,          \* the stagger effect has yet to run for the last commit
  elapsed,              \* ticks since the exposed isIntersecting last became true
  hookOp,               \* the operation that made the last step
  lastEntry,            \* what the last notification reported, or None
  reducedAtMount,       \* the preference as the mount effect found it, or None
  rmChanged,            \* the preference has changed since the component mounted
  everObserved,         \* an IntersectionObserver has been created
  everExposed           \* useScrollAnimation's isIntersecting has been true

hookVars == <<hook, ioSupported, erred, observations, animationDelay, animTimer,
              shouldAnimate, hookMounted, element, prefersReducedMotion, triggerOnce, itemCount,
              staggerDelay, isIntersecting, hasTriggered, observing, obsHasTriggered,
              obsPending, visibleItems, timers, stagPending, elapsed, hookOp,
              lastEntry, reducedAtMount, rmChanged, everObserved, everExposed>>

\* Projects with its ProjectModal, one Modal instance under any parent, and
\* Contact's copy control.  Projects are numbered; time is counted in ticks
\* of one second.
VARIABLES
  selectedProject,      \* state of Projects: a project, or NoProject
  isModalOpen,          \* state of Projects
  currentImageIndex,    \* state of ProjectModal (zero-based)
  modalMounted,         \* the Modal instance is mounted
  isOpen,               \* the Modal's prop isOpen
  onClose,              \* the identity of the Modal's prop onClose
  modalPending,         \* the Modal's effect has yet to run for the last commit
  modalRan,             \* the Modal's effect has run, so a cleanup is registered
  keydownListener,      \* handleEscape is registered on document
  bodyOverflow,         \* document.body.style.overflow
  copiedEmail,          \* state of Contact
  copyTimers,           \* ticks left on Contact's timeouts, oldest first
  writesPending,        \* clipboard writes that have not settled
  sinceCopy,            \* ticks since the last successful copy, or Off
  uiOp                  \* the operation that made the last step

uiVars == <<selectedProject, isModalOpen, currentImageIndex, modalMounted, isOpen,
            onClose, modalPending, modalRan, keydownListener, bodyOverflow,
            copiedEmail, copyTimers, writesPending, sinceCopy, uiOp>>

vars == <<layoutVars, hookVars, uiVars>>

Max(a, b) == IF a >= b THEN a ELSE b

Min(a, b) == IF a <= b THEN a ELSE b

\* visibleHeight of region i at scroll offset y.
visibleHeight(i, y) ==
  LET elementTop    == layout.top[i]
      elementBottom == elementTop + layout.height[i]
      visibleTop    == Max(elementTop, y)
      visibleBottom == Min(elementBottom, y + ViewportHeight)
  IN  Max(0, visibleBottom - visibleTop)

\* The loop of handleScroll from region i on; acc holds currentSection and
\* maxVisibility as the fraction num/den.  visibility > maxVisibility is
\* compared by cross-multiplication; 0/0 is NaN and compares false.
RECURSIVE scanSections(_, _, _)
scanSections(i, y, acc) ==
  IF i > Len(sections) THEN acc
  ELSE LET h    == layout.height[i]
           v    == visibleHeight(i, y)
           more == /\ layout.present[i]
                   /\ h > 0
                   /\ v * acc.den > acc.num * h
       IN  scanSections(i + 1, y,
             IF more THEN [currentSection |-> sections[i], num |-> v, den |-> h]
                     ELSE acc)

\* The loop of handleScroll as it would be without its if (element).
RECURSIVE scanSectionsUnguarded(_, _, _)
scanSectionsUnguarded(i, y, acc) ==
  IF i > Len(sections) THEN acc
  ELSE LET h    == layout.height[i]
           v    == visibleHeight(i, y)
           more == h > 0 /\ v * acc.den > acc.num * h
       IN  scanSectionsUnguarded(i + 1, y,
             IF more THEN [currentSection |-> sections[i], num |-> v, den |-> h]
                     ELSE acc)

\* currentSection as it would be if the loop did not skip missing elements.
mostVisibleUnguarded(y) ==
  scanSectionsUnguarded(1, y, [currentSection |-> "hero", num |-> 0, den |-> 1]).currentSection

\* The loop of handleScroll as it would be if the division by a height of
\* zero gave a ratio of one.
RECURSIVE scanSectionsZeroFull(_, _, _)
scanSectionsZeroFull(i, y, acc) ==
  IF i > Len(sections) THEN acc
  ELSE LET h    == layout.height[i]
           v    == visibleHeight(i, y)
           more == /\ layout.present[i]
                   /\ IF h = 0 THEN acc.den > acc.num ELSE v * acc.den > acc.num * h
       IN  scanSectionsZeroFull(i + 1, y,
             IF more THEN [currentSection |-> sections[i], num |-> 1, den |-> 1]
                     ELSE acc)

\* currentSection as it would be if a region of height zero counted as
\* fully visible.
mostVisibleZeroFull(y) ==
  scanSectionsZeroFull(1, y, [currentSection |-> "hero", num |-> 0, den |-> 1]).currentSection

\* currentSection as it would be if the loop started from no section.
mostVisibleNoDefault(y) ==
  scanSections(1, y, [currentSection |-> None, num |-> 0, den |-> 1]).currentSection

\* currentSection at the end of handleScroll's loop.
mostVisible(y) ==
  scanSections(1, y, [currentSection |-> "hero", num |-> 0, den |-> 1]).currentSection

\* Some region has a positive visibility ratio at scroll offset y.
somePositive(y) ==
  \E i \in DOMAIN sections :
     layout.present[i] /\ layout.height[i] > 0 /\ visibleHeight(i, y) > 0

\* handleScroll as it would be if it kept the state when nothing is visible.
handleScrollRetain(captured, a) ==
  LET currentSection == mostVisible(scrollY)
  IN  IF somePositive(scrollY) /\ currentSection # captured THEN currentSection ELSE a

\* handleScroll of a closure that captured `captured`, with the state at `a`:
\* the value of the state after it.
handleScroll(captured, a) ==
  LET currentSection == mostVisible(scrollY)
  IN  IF currentSection # captured THEN currentSection ELSE a

\* The frame callbacks of one animation frame, run oldest first:
\* each is () => { handleScroll(); ticking = false }.
RECURSIVE runCallbacks(_, _)
runCallbacks(q, a) ==
  IF q = <<>> THEN a
  ELSE runCallbacks(Tail(q), handleScroll(Head(q).captured, a))

\* handleSectionChange as it would be if it accepted visible regions only.
handleSectionChangeVisible(section) ==
  IF mostVisible(scrollY) = section THEN section ELSE activeSection

\* handleSectionChange(section): setActiveSection(section).
handleSectionChange(section) == section

\* getElementById as it would be if every id were found.
getElementByIdAlways(id) == TRUE

\* document.getElementById(id) finds an element.
getElementById(id) ==
  \E i \in DOMAIN sections : sections[i] = id /\ layout.present[i]

\* Every pending callback with field f set to b.
markFrames(q, f, b) == [i \in DOMAIN q |-> [q[i] EXCEPT ![f] = b]]

\* ---------------------------------------------------- MainLayout: actions
LayoutInit(geometries) ==
  /\ layout \in geometries
  /\ scrollY = 0
  /\ mounted = TRUE
  /\ activeSection = "hero"
  /\ effectPending = TRUE
  /\ subscribed = FALSE
  /\ closureActive = "hero"
  /\ ticking = FALSE
  /\ frames = <<>>
  /\ scrollTarget = None
  /\ lastOp = "init"
  /\ clickLatch = None
  /\ interacted = FALSE

\* The window scrolls to y and dispatches a scroll event; the registered
\* listener, if any, is throttledHandleScroll.
ScrollEvent(y) ==
  /\ subscribed /\ ~ticking => Len(frames) < MaxPending
  /\ scrollY' = y
  /\ IF subscribed /\ ~ticking
       THEN /\ frames' = Append(frames, [captured |-> closureActive,
                                         current  |-> TRUE,
                                         preClick |-> FALSE])
            /\ ticking' = TRUE
       ELSE UNCHANGED <<frames, ticking>>
  /\ clickLatch' = None
  /\ interacted' = TRUE
  /\ lastOp' = "scroll"
  /\ UNCHANGED <<hookVars, uiVars>>
  /\ UNCHANGED <<layout, mounted, activeSection, effectPending, subscribed,
                 closureActive, scrollTarget>>

\* An animation frame: every pending callback runs.  setActiveSection on
\* an unmounted component changes nothing.
Frame ==
  /\ frames # <<>>
  /\ activeSection' = IF mounted THEN runCallbacks(frames, activeSection)
                                 ELSE activeSection
  /\ ticking' = IF \E i \in DOMAIN frames : frames[i].current THEN FALSE ELSE ticking
  /\ frames' = <<>>
  /\ effectPending' = (effectPending \/ activeSection' # activeSection)
  /\ lastOp' = "frame"
  /\ UNCHANGED <<hookVars, uiVars>>
  /\ UNCHANGED <<layout, scrollY, mounted, subscribed, closureActive, scrollTarget,
                 clickLatch, interacted>>

\* Navigation.handleNavClick(item) with onSectionChange = handleSectionChange.
\* React runs a pending effect before it renders a new update.
NavClick(x) ==
  /\ mounted /\ ~effectPending
  /\ activeSection' = handleSectionChange(x)
  /\ effectPending' = (activeSection' # activeSection)
  /\ scrollTarget' = IF getElementById(x) THEN x ELSE None
  /\ frames' = markFrames(frames, "preClick", TRUE)
  /\ clickLatch' = x
  /\ interacted' = TRUE
  /\ lastOp' = "click"
  /\ UNCHANGED <<hookVars, uiVars>>
  /\ UNCHANGED <<layout, scrollY, mounted, subscribed, closureActive, ticking>>

\* The useEffect of MainLayout, dependencies [activeSection]: the cleanup
\* of the previous run, then a new closure (ticking = false), the listener
\* and the initial handleScroll().
RunEffect ==
  /\ mounted /\ effectPending
  /\ subscribed' = TRUE
  /\ closureActive' = activeSection
  /\ ticking' = FALSE
  /\ frames' = markFrames(frames, "current", FALSE)
  /\ activeSection' = handleScroll(activeSection, activeSection)
  /\ effectPending' = (activeSection' # activeSection)
  /\ lastOp' = "effect"
  /\ UNCHANGED <<hookVars, uiVars>>
  /\ UNCHANGED <<layout, scrollY, mounted, scrollTarget, clickLatch, interacted>>

\* MainLayout unmounts: the effect's cleanup removes the listener.
Unmount ==
  /\ mounted
  /\ mounted' = FALSE
  /\ subscribed' = FALSE
  /\ effectPending' = FALSE
  /\ frames' = markFrames(frames, "current", FALSE)
  /\ lastOp' = "unmount"
  /\ UNCHANGED <<hookVars, uiVars>>
  /\ UNCHANGED <<layout, scrollY, activeSection, closureActive, ticking, scrollTarget,
                 clickLatch, interacted>>

LayoutNext ==
  \/ \E y \in 0..MaxScroll : ScrollEvent(y)
  \/ Frame
  \/ \E x \in SectionId : NavClick(x)
  \/ RunEffect
  \/ Unmount

\* ------------------------------------------- useIntersectionObserver
Off == -1

\* The isIntersecting the hook returns:
\* triggerOnce ? (hasTriggered || isIntersecting) : isIntersecting.
exposedOf(intersecting, triggered) ==
  IF triggerOnce THEN (triggered \/ intersecting) ELSE intersecting

exposed == exposedOf(isIntersecting, hasTriggered)

\* The observer callback as it would be if it only copied the entry.
intersectionCallbackCopy(entry) ==
  [isIntersecting |-> entry, hasTriggered |-> hasTriggered]

\* The observer callback as it would be without its else branch.
intersectionCallbackNoElse(entry) ==
  IF entry /\ (~obsHasTriggered \/ ~triggerOnce)
    THEN [isIntersecting |-> TRUE,
          hasTriggered   |-> IF triggerOnce THEN TRUE ELSE hasTriggered]
    ELSE [isIntersecting |-> isIntersecting, hasTriggered |-> hasTriggered]

\* The callback given to new IntersectionObserver, for an entry whose
\* isIntersecting is `entry`: the state it leaves.
intersectionCallback(entry) ==
  IF entry /\ (~obsHasTriggered \/ ~triggerOnce)
    THEN [isIntersecting |-> TRUE,
          hasTriggered   |-> IF triggerOnce THEN TRUE ELSE hasTriggered]
    ELSE IF ~triggerOnce
      THEN [isIntersecting |-> entry, hasTriggered |-> hasTriggered]
      ELSE [isIntersecting |-> isIntersecting, hasTriggered |-> hasTriggered]

\* The observer effect as it would be if it did not look at the preference.
observerEffectNoPreference ==
  IF ~element
    THEN [isIntersecting |-> isIntersecting, hasTriggered |-> hasTriggered,
          observing |-> FALSE, obsHasTriggered |-> obsHasTriggered, error |-> FALSE]
    ELSE IF ~ioSupported
      THEN [isIntersecting |-> isIntersecting, hasTriggered |-> hasTriggered,
            observing |-> FALSE, obsHasTriggered |-> obsHasTriggered, error |-> TRUE]
      ELSE [isIntersecting |-> isIntersecting, hasTriggered |-> hasTriggered,
            observing |-> TRUE, obsHasTriggered |-> hasTriggered, error |-> FALSE]

\* observer.unobserve(element) as it would be if it stopped nothing.
unobserveNothing(n) == n

\* observer.unobserve(element) in the effect's cleanup: the observations
\* left of n.
unobserve(n) == n - 1

\* The effect of useIntersectionObserver, after the cleanup of its previous
\* run (unobserve): what it leaves.
observerEffect ==
  IF ~element
    THEN [isIntersecting |-> isIntersecting, hasTriggered |-> hasTriggered,
          observing |-> FALSE, obsHasTriggered |-> obsHasTriggered, error |-> FALSE]
    ELSE IF prefersReducedMotion
      THEN [isIntersecting |-> TRUE, hasTriggered |-> TRUE,
            observing |-> FALSE, obsHasTriggered |-> obsHasTriggered, error |-> FALSE]
      ELSE IF ~ioSupported
        \* new IntersectionObserver(...) throws a ReferenceError
        THEN [isIntersecting |-> isIntersecting, hasTriggered |-> hasTriggered,
              observing |-> FALSE, obsHasTriggered |-> obsHasTriggered, error |-> TRUE]
        ELSE [isIntersecting |-> isIntersecting, hasTriggered |-> hasTriggered,
              observing |-> TRUE, obsHasTriggered |-> hasTriggered, error |-> FALSE]

\* ---------------------------------- useStaggeredIntersectionObserver
\* The delay of item i's timeout as it would be without the factor i.
timerDelayFlat(i) == IF i = 1 THEN 0 ELSE staggerDelay

\* The delay of item i's timeout, i * staggerDelay * 1000 ms for the
\* zero-based index; items are numbered from 1 here.
timerDelay(i) == (i - 1) * staggerDelay

\* The stagger effect as it would be if its loop stopped one item early.
staggerEffectShort(visible) ==
  [i \in 1..itemCount |-> IF visible /\ i < itemCount THEN timerDelay(i) ELSE Off]

\* The stagger effect as it would be if the cleanup of its previous run
\* cleared nothing: the timeouts of the previous run stay.
staggerEffectKeep(visible) ==
  [i \in 1..(IF Len(timers) >= itemCount THEN Len(timers) ELSE itemCount) |->
      IF i <= Len(timers) /\ timers[i] # Off THEN timers[i]
      ELSE IF visible /\ i <= itemCount THEN timerDelay(i) ELSE Off]

\* The effect of useStaggeredIntersectionObserver, after the cleanup of its
\* previous run (clearTimeout of each of its timeouts), in a render whose
\* isIntersecting is `visible`: the timeouts it leaves.
staggerEffect(visible) ==
  [i \in 1..itemCount |-> IF visible THEN timerDelay(i) ELSE Off]

\* Ticks counted since the exposed value became true stop at this number.
ElapsedCap == MaxItems * MaxDelay

noTimers == [i \in 1..itemCount |-> Off]

\* The stagger effect's cleanup as it would be if it cleared nothing.
staggerCleanupNone == timers

\* The cleanup of the stagger effect, timeouts.forEach(clearTimeout): the
\* timeouts it leaves.
staggerCleanup == noTimers

\* ------------------------------------------------- useScrollAnimation
\* The animation effect's cleanup as it would be if it cleared nothing.
animationCleanupNone == animTimer

\* The cleanup of useScrollAnimation's effect, clearTimeout(timeout): the
\* timeout it leaves.
animationCleanup == Off

\* The effect of useScrollAnimation as it would be without if (isIntersecting).
animationEffectAlways(visible) == animationDelay

\* The effect of useScrollAnimation, after the cleanup of its previous run,
\* in a render whose isIntersecting is `visible`: the timeout it leaves.
animationEffect(visible) == IF visible THEN animationDelay ELSE Off

Staggered == "useStaggeredIntersectionObserver"

Animated == "useScrollAnimation"

\* elapsed after a step that takes the exposed value from `was` to `is`.
restartOn(was, is) == IF is /\ ~was THEN 0 ELSE elapsed

\* everExposed after a step that leaves the exposed value at `is`.
seenExposed(is) == everExposed \/ (hook = Animated /\ is)

\* setVisibleItems' updater as it would be if it did not copy prev.
revealOnly(prev, i) ==
  [j \in 1..(IF Len(prev) >= i THEN Len(prev) ELSE i) |-> j = i]

\* The updater given to setVisibleItems for item i, applied to prev:
\* newState = [...prev]; newState[i] = true.  An index past the end of prev
\* lengthens the array; the holes are undefined, shown as FALSE.
reveal(prev, i) ==
  [j \in 1..(IF Len(prev) >= i THEN Len(prev) ELSE i) |->
      IF j = i THEN TRUE ELSE IF j <= Len(prev) THEN prev[j] ELSE FALSE]

\* ------------------------------------------------------- hooks: actions
\* Variables no action changes after the component has mounted.
hookOptions == <<hook, ioSupported, element, itemCount, staggerDelay, animationDelay>>

HookInit(hooks, support) ==
  /\ hook \in hooks
  /\ ioSupported \in support
  /\ erred = FALSE
  /\ observations = 0
  /\ animationDelay \in (IF hook = Animated THEN 0..MaxDelay ELSE {0})
  /\ animTimer = Off
  /\ shouldAnimate = FALSE
  /\ hookMounted = TRUE
  /\ element \in BOOLEAN
  /\ prefersReducedMotion \in BOOLEAN
  /\ triggerOnce \in BOOLEAN
  /\ itemCount \in (IF hook = Staggered THEN 0..MaxItems ELSE {0})
  /\ staggerDelay \in (IF hook = Staggered THEN 0..MaxDelay ELSE {0})
  /\ isIntersecting = FALSE
  /\ hasTriggered = FALSE
  /\ observing = FALSE
  /\ obsHasTriggered = FALSE
  /\ obsPending = TRUE
  /\ visibleItems = [i \in 1..itemCount |-> FALSE]
  /\ timers = noTimers
  /\ stagPending = TRUE
  /\ elapsed = 0
  /\ hookOp = "init"
  /\ lastEntry = None
  /\ reducedAtMount = None
  /\ rmChanged = FALSE
  /\ everObserved = FALSE
  /\ everExposed = FALSE

\* React flushes the pending effects of the last commit: the observer
\* effect first, then the effect of the hook built on it (stagPending), each
\* after its own cleanup.  Both read the state of the render they belong to.
\* An effect that throws takes the component down: React unmounts it and
\* runs the cleanups that are left.
FlushEffects ==
  /\ hookMounted /\ (obsPending \/ stagPending)
  /\ LET o == IF obsPending THEN observerEffect
              ELSE [isIntersecting |-> isIntersecting, hasTriggered |-> hasTriggered,
                    observing |-> observing, obsHasTriggered |-> obsHasTriggered,
                    error |-> FALSE]
         cleaned == IF obsPending /\ observing THEN unobserve(observations)
                                               ELSE observations
     IN  /\ isIntersecting' = o.isIntersecting
         /\ hasTriggered' = o.hasTriggered
         /\ observing' = o.observing
         /\ obsHasTriggered' = o.obsHasTriggered
         /\ observations' = IF obsPending /\ o.observing THEN cleaned + 1 ELSE cleaned
         /\ everObserved' = (everObserved \/ (obsPending /\ o.observing))
         /\ erred' = o.error
         /\ hookMounted' = ~o.error
         /\ obsPending' = (~o.error /\ o.hasTriggered # hasTriggered)
         /\ stagPending' = (~o.error /\ exposedOf(o.isIntersecting, o.hasTriggered) # exposed)
         /\ elapsed' = restartOn(exposed, exposedOf(o.isIntersecting, o.hasTriggered))
         /\ everExposed' = seenExposed(exposedOf(o.isIntersecting, o.hasTriggered))
         /\ timers' = IF o.error THEN staggerCleanup
                      ELSE IF stagPending /\ hook = Staggered THEN staggerEffect(exposed)
                      ELSE timers
         /\ animTimer' = IF o.error THEN animationCleanup
                         ELSE IF stagPending /\ hook = Animated THEN animationEffect(exposed)
                         ELSE animTimer
  /\ reducedAtMount' = IF reducedAtMount = None
                         THEN (IF prefersReducedMotion THEN "reduce" ELSE "no-preference")
                         ELSE reducedAtMount
  /\ hookOp' = "flush"
  /\ UNCHANGED <<layoutVars, uiVars>>
  /\ UNCHANGED hookOptions
  /\ UNCHANGED <<prefersReducedMotion, triggerOnce, visibleItems, shouldAnimate,
                 lastEntry, rmChanged>>

\* The observer delivers an entry.  React runs the pending effects of the
\* last commit before it renders the update of a later event.
Notify(entry) ==
  /\ hookMounted /\ observing /\ ~obsPending /\ ~stagPending
  /\ LET c == intersectionCallback(entry)
     IN  /\ isIntersecting' = c.isIntersecting
         /\ hasTriggered' = c.hasTriggered
         /\ obsPending' = (c.hasTriggered # hasTriggered)
         /\ stagPending' = (exposedOf(c.isIntersecting, c.hasTriggered) # exposed)
         /\ elapsed' = restartOn(exposed, exposedOf(c.isIntersecting, c.hasTriggered))
         /\ everExposed' = seenExposed(exposedOf(c.isIntersecting, c.hasTriggered))
  /\ lastEntry' = IF entry THEN "intersecting" ELSE "apart"
  /\ hookOp' = "notify"
  /\ UNCHANGED <<layoutVars, uiVars>>
  /\ UNCHANGED hookOptions
  /\ UNCHANGED <<erred, observations, animTimer, shouldAnimate, hookMounted,
                 prefersReducedMotion, triggerOnce, observing, obsHasTriggered,
                 visibleItems, timers, reducedAtMount, rmChanged, everObserved>>

\* The timeout of item i fires: setVisibleItems(prev => ... newState[i] = true).
\* Timeouts set together fire in the order of their delays.
FireTimer(i) ==
  /\ timers[i] = 0
  /\ \A j \in 1..(i - 1) : timers[j] = Off
  /\ visibleItems' = reveal(visibleItems, i)
  /\ timers' = [timers EXCEPT ![i] = Off]
  /\ hookOp' = "timer"
  /\ UNCHANGED <<layoutVars, uiVars>>
  /\ UNCHANGED hookOptions
  /\ UNCHANGED <<erred, observations, animTimer, shouldAnimate, hookMounted,
                 prefersReducedMotion, triggerOnce, isIntersecting, hasTriggered,
                 observing, obsHasTriggered, obsPending, stagPending, elapsed,
                 lastEntry, reducedAtMount, rmChanged, everObserved, everExposed>>

\* The timeout's callback as it would be if it toggled shouldAnimate.
FireAnimationToggle ==
  /\ animTimer = 0
  /\ shouldAnimate' = ~shouldAnimate
  /\ animTimer' = Off
  /\ hookOp' = "animate"
  /\ UNCHANGED <<layoutVars, uiVars>>
  /\ UNCHANGED hookOptions
  /\ UNCHANGED <<erred, observations, hookMounted, prefersReducedMotion, triggerOnce,
                 isIntersecting, hasTriggered, observing, obsHasTriggered, obsPending,
                 visibleItems, timers, stagPending, elapsed, lastEntry, reducedAtMount,
                 rmChanged, everObserved, everExposed>>

\* The timeout of useScrollAnimation fires: setShouldAnimate(true).
FireAnimation ==
  /\ animTimer = 0
  /\ shouldAnimate' = TRUE
  /\ animTimer' = Off
  /\ hookOp' = "animate"
  /\ UNCHANGED <<layoutVars, uiVars>>
  /\ UNCHANGED hookOptions
  /\ UNCHANGED <<erred, observations, hookMounted, prefersReducedMotion, triggerOnce,
                 isIntersecting, hasTriggered, observing, obsHasTriggered, obsPending,
                 visibleItems, timers, stagPending, elapsed, lastEntry, reducedAtMount,
                 rmChanged, everObserved, everExposed>>

\* One tick of time passes.
Tick ==
  /\ hookMounted
  /\ \/ elapsed < ElapsedCap
     \/ \E i \in DOMAIN timers : timers[i] > 0
     \/ animTimer > 0
  /\ timers' = [i \in DOMAIN timers |-> IF timers[i] > 0 THEN timers[i] - 1 ELSE timers[i]]
  /\ animTimer' = IF animTimer > 0 THEN animTimer - 1 ELSE animTimer
  /\ elapsed' = Min(elapsed + 1, ElapsedCap)
  /\ hookOp' = "tick"
  /\ UNCHANGED <<layoutVars, uiVars>>
  /\ UNCHANGED hookOptions
  /\ UNCHANGED <<erred, observations, shouldAnimate, hookMounted, prefersReducedMotion,
                 triggerOnce, isIntersecting, hasTriggered, observing, obsHasTriggered,
                 obsPending, visibleItems, stagPending, lastEntry, reducedAtMount,
                 rmChanged, everObserved, everExposed>>

\* The user changes the reduced-motion setting.
ToggleReducedMotion ==
  /\ hookMounted
  /\ prefersReducedMotion' = ~prefersReducedMotion
  /\ rmChanged' = TRUE
  /\ hookOp' = "toggle"
  /\ UNCHANGED <<layoutVars, uiVars>>
  /\ UNCHANGED hookOptions
  /\ UNCHANGED <<erred, observations, animTimer, shouldAnimate, hookMounted, triggerOnce,
                 isIntersecting, hasTriggered, observing, obsHasTriggered, obsPending,
                 visibleItems, timers, stagPending, elapsed, lastEntry, reducedAtMount,
                 everObserved, everExposed>>

\* The component renders again with other options: triggerOnce becomes t,
\* and threshold or rootMargin change when t is the value it had.  The
\* observer effect's dependencies have changed.
Reconfigure(t) ==
  /\ hookMounted /\ ~obsPending /\ ~stagPending
  /\ triggerOnce' = t
  /\ obsPending' = TRUE
  /\ LET was == exposed
         is  == IF t THEN (hasTriggered \/ isIntersecting) ELSE isIntersecting
     IN  /\ stagPending' = (is # was)
         /\ elapsed' = restartOn(was, is)
         /\ everExposed' = seenExposed(is)
  /\ hookOp' = "reconfigure"
  /\ UNCHANGED <<layoutVars, uiVars>>
  /\ UNCHANGED hookOptions
  /\ UNCHANGED <<erred, observations, animTimer, shouldAnimate, hookMounted,
                 prefersReducedMotion, isIntersecting, hasTriggered, observing,
                 obsHasTriggered, visibleItems, timers, lastEntry, reducedAtMount,
                 rmChanged, everObserved>>

\* The component renders again with itemCount n and staggerDelay d, one of
\* them new: the stagger effect's dependencies have changed.  visibleItems
\* keeps its value (useState ignores its argument after the first render).
ReconfigureStagger(n, d) ==
  /\ hookMounted /\ hook = Staggered /\ ~obsPending /\ ~stagPending
  /\ <<n, d>> # <<itemCount, staggerDelay>>
  /\ itemCount' = n
  /\ staggerDelay' = d
  /\ stagPending' = TRUE
  /\ hookOp' = "restagger"
  /\ UNCHANGED <<layoutVars, uiVars>>
  /\ UNCHANGED <<hook, ioSupported, element, animationDelay>>
  /\ UNCHANGED <<erred, observations, animTimer, shouldAnimate, hookMounted,
                 prefersReducedMotion, triggerOnce, isIntersecting, hasTriggered,
                 observing, obsHasTriggered, obsPending, visibleItems, timers, elapsed,
                 lastEntry, reducedAtMount, rmChanged, everObserved, everExposed>>

\* The component renders again with a new animationDelay d: the animation
\* effect's dependencies have changed.
ReconfigureAnimation(d) ==
  /\ hookMounted /\ hook = Animated /\ ~obsPending /\ ~stagPending
  /\ d # animationDelay
  /\ animationDelay' = d
  /\ stagPending' = TRUE
  /\ hookOp' = "redelay"
  /\ UNCHANGED <<layoutVars, uiVars>>
  /\ UNCHANGED <<hook, ioSupported, element, itemCount, staggerDelay>>
  /\ UNCHANGED <<erred, observations, animTimer, shouldAnimate, hookMounted,
                 prefersReducedMotion, triggerOnce, isIntersecting, hasTriggered,
                 observing, obsHasTriggered, obsPending, visibleItems, timers, elapsed,
                 lastEntry, reducedAtMount, rmChanged, everObserved, everExposed>>

\* The component unmounts: the cleanups of the effects run.
HookUnmount ==
  /\ hookMounted
  /\ hookMounted' = FALSE
  /\ observing' = FALSE
  /\ observations' = IF observing THEN unobserve(observations) ELSE observations
  /\ timers' = staggerCleanup
  /\ animTimer' = animationCleanup
  /\ obsPending' = FALSE
  /\ stagPending' = FALSE
  /\ hookOp' = "unmount"
  /\ UNCHANGED <<layoutVars, uiVars>>
  /\ UNCHANGED hookOptions
  /\ UNCHANGED <<erred, shouldAnimate, prefersReducedMotion, triggerOnce,
                 isIntersecting, hasTriggered, obsHasTriggered, visibleItems, elapsed,
                 lastEntry, reducedAtMount, rmChanged, everObserved, everExposed>>

HookNext ==
  \/ FlushEffects
  \/ \E entry \in BOOLEAN : Notify(entry)
  \/ \E i \in 1..itemCount : FireTimer(i)
  \/ Tick
  \/ ToggleReducedMotion
  \/ HookUnmount

ReconfigNext ==
  \/ FlushEffects
  \/ \E entry \in BOOLEAN : Notify(entry)
  \/ \E i \in DOMAIN timers : FireTimer(i)
  \/ FireAnimation
  \/ Tick
  \/ \E n \in 0..MaxItems, d \in 0..MaxDelay : ReconfigureStagger(n, d)
  \/ \E d \in 0..MaxDelay : ReconfigureAnimation(d)
  \/ HookUnmount

AnimationNext ==
  \/ FlushEffects
  \/ \E entry \in BOOLEAN : Notify(entry)
  \/ FireAnimation
  \/ Tick
  \/ ToggleReducedMotion
  \/ \E t \in BOOLEAN : Reconfigure(t)
  \/ HookUnmount

\* ------------------------------------------- Projects and ProjectModal
\* selectedProject when no project is selected (null).
NoProject == 0

\* project.images.length of each project the page can be given.
imageCounts == <<MaxImages, 2, 1, 0>>

\* openProjectModal as it would be if it reset the image index.
openProjectModalReset(project) == 0

\* openProjectModal(project) renders ProjectModal with the project; the
\* component stays mounted between projects and nothing calls
\* handleModalOpen: the currentImageIndex it leaves.
openProjectModal(project) == currentImageIndex

\* nextImage's updater applied to prev, for a project of n images.
nextImage(prev, n) == IF prev = n - 1 THEN 0 ELSE prev + 1

\* prevImage's updater applied to prev, for a project of n images.
prevImage(prev, n) == IF prev = 0 THEN n - 1 ELSE prev - 1

\* The gallery controls are rendered: a project is shown and it has more
\* than one image.
galleryControls ==
  selectedProject # NoProject /\ isModalOpen /\ imageCounts[selectedProject] > 1

UiFrame == <<modalMounted, isOpen, onClose, modalPending, modalRan, keydownListener,
             bodyOverflow, copiedEmail, copyTimers, writesPending, sinceCopy>>

\* A project card's onViewDetails.
OpenProject(project) ==
  /\ ~isModalOpen
  /\ selectedProject' = project
  /\ isModalOpen' = TRUE
  /\ currentImageIndex' = openProjectModal(project)
  /\ uiOp' = "open"
  /\ UNCHANGED UiFrame
  /\ UNCHANGED <<layoutVars, hookVars>>

\* closeProjectModal.
CloseProject ==
  /\ isModalOpen
  /\ isModalOpen' = FALSE
  /\ selectedProject' = NoProject
  /\ uiOp' = "close"
  /\ UNCHANGED currentImageIndex
  /\ UNCHANGED UiFrame
  /\ UNCHANGED <<layoutVars, hookVars>>

\* The next-image arrow.
NextImage ==
  /\ galleryControls
  /\ currentImageIndex < MaxImages + 1
  /\ currentImageIndex' = nextImage(currentImageIndex, imageCounts[selectedProject])
  /\ uiOp' = "next"
  /\ UNCHANGED <<selectedProject, isModalOpen>>
  /\ UNCHANGED UiFrame
  /\ UNCHANGED <<layoutVars, hookVars>>

\* The previous-image arrow.
PrevImage ==
  /\ galleryControls
  /\ currentImageIndex' = prevImage(currentImageIndex, imageCounts[selectedProject])
  /\ uiOp' = "prev"
  /\ UNCHANGED <<selectedProject, isModalOpen>>
  /\ UNCHANGED UiFrame
  /\ UNCHANGED <<layoutVars, hookVars>>

\* A thumbnail: setCurrentImageIndex(index).
SelectImage(index) ==
  /\ galleryControls
  /\ index < imageCounts[selectedProject]
  /\ currentImageIndex' = index
  /\ uiOp' = "select"
  /\ UNCHANGED <<selectedProject, isModalOpen>>
  /\ UNCHANGED UiFrame
  /\ UNCHANGED <<layoutVars, hookVars>>

\* ---------------------------------------------------------------- Modal
\* The effect's cleanup as it would be if it left the overflow alone.
modalCleanupKeep == bodyOverflow

\* The cleanup of Modal's effect: document.body.style.overflow = 'unset'.
modalCleanup == "unset"

ProjectFrame == <<selectedProject, isModalOpen, currentImageIndex>>

ContactFrame == <<copiedEmail, copyTimers, writesPending, sinceCopy>>

\* A parent mounts the Modal with isOpen = open.
ModalMount(open) ==
  /\ ~modalMounted
  /\ modalMounted' = TRUE
  /\ isOpen' = open
  /\ modalPending' = TRUE
  /\ modalRan' = FALSE
  /\ uiOp' = "mount"
  /\ UNCHANGED <<onClose, keydownListener, bodyOverflow>>
  /\ UNCHANGED <<ProjectFrame, ContactFrame>>
  /\ UNCHANGED <<layoutVars, hookVars>>

\* The parent renders the Modal again with isOpen = open and onClose =
\* handler.  React runs a pending effect before it renders a new update.
ModalRender(open, handler) ==
  /\ modalMounted /\ ~modalPending
  /\ <<open, handler>> # <<isOpen, onClose>>
  /\ isOpen' = open
  /\ onClose' = handler
  /\ modalPending' = TRUE
  /\ uiOp' = IF open # isOpen THEN (IF open THEN "show" ELSE "hide") ELSE "handler"
  /\ UNCHANGED <<modalMounted, modalRan, keydownListener, bodyOverflow>>
  /\ UNCHANGED <<ProjectFrame, ContactFrame>>
  /\ UNCHANGED <<layoutVars, hookVars>>

\* The useEffect of Modal, dependencies [isOpen, onClose]: the cleanup of
\* the previous run, then the setup.
ModalEffect ==
  /\ modalMounted /\ modalPending
  /\ LET cleaned == IF modalRan THEN modalCleanup ELSE bodyOverflow
     IN  bodyOverflow' = IF isOpen THEN "hidden" ELSE cleaned
  /\ keydownListener' = isOpen
  /\ modalRan' = TRUE
  /\ modalPending' = FALSE
  /\ uiOp' = "effect"
  /\ UNCHANGED <<modalMounted, isOpen, onClose>>
  /\ UNCHANGED <<ProjectFrame, ContactFrame>>
  /\ UNCHANGED <<layoutVars, hookVars>>

\* The Modal unmounts: the cleanup of the effect's last run.
ModalUnmount ==
  /\ modalMounted
  /\ modalMounted' = FALSE
  /\ bodyOverflow' = IF modalRan THEN modalCleanup ELSE bodyOverflow
  /\ keydownListener' = FALSE
  /\ modalPending' = FALSE
  /\ modalRan' = FALSE
  /\ uiOp' = "unmount"
  /\ UNCHANGED <<isOpen, onClose>>
  /\ UNCHANGED <<ProjectFrame, ContactFrame>>
  /\ UNCHANGED <<layoutVars, hookVars>>

\* -------------------------------------------------------------- Contact
ModalFrame == <<modalMounted, isOpen, onClose, modalPending, modalRan, keydownListener,
                bodyOverflow>>

\* Ticks counted since the last successful copy stop at this number.
SinceCap == CopiedTimeout + 1

\* handleCopyEmail up to its await: navigator.clipboard.writeText is called.
CopyEmail ==
  /\ writesPending < MaxCopies
  /\ writesPending' = writesPending + 1
  /\ uiOp' = "copy"
  /\ UNCHANGED <<copiedEmail, copyTimers, sinceCopy>>
  /\ UNCHANGED <<ProjectFrame, ModalFrame>>
  /\ UNCHANGED <<layoutVars, hookVars>>

\* The clipboard write settles and handleCopyEmail goes on: after a success
\* setCopiedEmail(true) and setTimeout(..., 2000), after a failure
\* console.error only.
WriteSettled(ok) ==
  /\ writesPending > 0
  /\ ok => Len(copyTimers) < MaxCopies
  /\ writesPending' = writesPending - 1
  /\ copiedEmail' = IF ok THEN TRUE ELSE copiedEmail
  /\ copyTimers' = IF ok THEN Append(copyTimers, CopiedTimeout) ELSE copyTimers
  /\ sinceCopy' = IF ok THEN 0 ELSE sinceCopy
  /\ uiOp' = IF ok THEN "copied" ELSE "failed"
  /\ UNCHANGED <<ProjectFrame, ModalFrame>>
  /\ UNCHANGED <<layoutVars, hookVars>>

\* The oldest timeout fires: setCopiedEmail(false).
CopyTimeout ==
  /\ copyTimers # <<>> /\ Head(copyTimers) = 0
  /\ copiedEmail' = FALSE
  /\ copyTimers' = Tail(copyTimers)
  /\ uiOp' = "timeout"
  /\ UNCHANGED <<writesPending, sinceCopy>>
  /\ UNCHANGED <<ProjectFrame, ModalFrame>>
  /\ UNCHANGED <<layoutVars, hookVars>>

\* One second passes; a timeout that is due fires before more time passes.
Second ==
  /\ copyTimers # <<>> \/ (sinceCopy # Off /\ sinceCopy < SinceCap)
  /\ \A i \in DOMAIN copyTimers : copyTimers[i] > 0
  /\ copyTimers' = [i \in DOMAIN copyTimers |-> copyTimers[i] - 1]
  /\ sinceCopy' = IF sinceCopy = Off THEN Off
                  ELSE IF sinceCopy < SinceCap THEN sinceCopy + 1 ELSE sinceCopy
  /\ uiOp' = "second"
  /\ UNCHANGED <<copiedEmail, writesPending>>
  /\ UNCHANGED <<ProjectFrame, ModalFrame>>
  /\ UNCHANGED <<layoutVars, hookVars>>

UiInit ==
  /\ selectedProject = NoProject
  /\ isModalOpen = FALSE
  /\ currentImageIndex = 0
  /\ modalMounted = FALSE
  /\ isOpen = FALSE
  /\ onClose = "closeA"
  /\ modalPending = FALSE
  /\ modalRan = FALSE
  /\ keydownListener = FALSE
  /\ bodyOverflow = ""
  /\ copiedEmail = FALSE
  /\ copyTimers = <<>>
  /\ writesPending = 0
  /\ sinceCopy = Off
  /\ uiOp = "init"

UiNext ==
  \/ \E project \in DOMAIN imageCounts : OpenProject(project)
  \/ CloseProject
  \/ NextImage
  \/ PrevImage
  \/ \E index \in 0..(MaxImages - 1) : SelectImage(index)
  \/ \E open \in BOOLEAN : ModalMount(open)
  \/ \E open \in BOOLEAN, handler \in {"closeA", "closeB"} : ModalRender(open, handler)
  \/ ModalEffect
  \/ ModalUnmount
  \/ CopyEmail
  \/ \E ok \in BOOLEAN : WriteSettled(ok)
  \/ CopyTimeout
  \/ Second

\* -------------------------------------------------------- specifications
\* The hook, not in use.
HookIdle ==
  /\ hook = Staggered
  /\ ioSupported = TRUE
  /\ erred = FALSE
  /\ observations = 0
  /\ animationDelay = 0
  /\ animTimer = Off
  /\ shouldAnimate = FALSE
  /\ hookMounted = FALSE
  /\ element = FALSE
  /\ prefersReducedMotion = FALSE
  /\ triggerOnce = TRUE
  /\ itemCount = 0
  /\ staggerDelay = 0
  /\ isIntersecting = FALSE
  /\ hasTriggered = FALSE
  /\ observing = FALSE
  /\ obsHasTriggered = FALSE
  /\ obsPending = FALSE
  /\ visibleItems = <<>>
  /\ timers = <<>>
  /\ stagPending = FALSE
  /\ elapsed = 0
  /\ hookOp = "init"
  /\ lastEntry = None
  /\ reducedAtMount = None
  /\ rmChanged = FALSE
  /\ everObserved = FALSE
  /\ everExposed = FALSE

\* MainLayout and Navigation.
Init == LayoutInit(Layouts) /\ HookIdle /\ UiInit

Next == LayoutNext

Spec == Init /\ [][Next]_vars

\* useStaggeredIntersectionObserver where IntersectionObserver exists, on a
\* page that is left alone.
HookSpecInit == LayoutInit({stacked}) /\ HookInit({Staggered}, {TRUE}) /\ UiInit

HookSpecNext == HookNext

HookSpec == HookSpecInit /\ [][HookSpecNext]_vars

\* The hooks with the scheduling the browser and React guarantee: pending
\* effects are flushed, time passes, and a timeout that is due fires.
HookFairSpec ==
  /\ HookSpec
  /\ WF_vars(FlushEffects)
  /\ WF_vars(Tick)
  /\ \A i \in 1..MaxItems : WF_vars(i \in 1..itemCount /\ FireTimer(i))

\* useScrollAnimation, with or without IntersectionObserver, in a component
\* that may render again with other options.
AnimationSpecInit == LayoutInit({stacked}) /\ HookInit({Animated}, BOOLEAN) /\ UiInit

AnimationSpec == AnimationSpecInit /\ [][AnimationNext]_vars

\* Either hook, in a component that may render again with another item
\* count, stagger delay or animation delay.
ReconfigSpecInit ==
  LayoutInit({stacked}) /\ HookInit({Staggered, Animated}, {TRUE}) /\ UiInit

ReconfigSpec == ReconfigSpecInit /\ [][ReconfigNext]_vars

\* Projects with ProjectModal, a Modal and Contact, beside a page that is
\* left alone.
UiSpecInit == LayoutInit({stacked}) /\ HookIdle /\ UiInit

UiSpec == UiSpecInit /\ [][UiNext]_vars

\* ------------------------------------------------------ MainLayout: claims
\* Region i has the greatest visibility ratio at offset y, and no earlier
\* region has the same ratio.
greatestFirst(i, y) ==
  /\ layout.present[i] /\ layout.height[i] > 0 /\ visibleHeight(i, y) > 0
  /\ \A j \in DOMAIN sections :
        layout.present[j] /\ layout.height[j] > 0 =>
          /\ visibleHeight(j, y) * layout.height[i] <= visibleHeight(i, y) * layout.height[j]
          /\ j < i => visibleHeight(j, y) * layout.height[i]
                         < visibleHeight(i, y) * layout.height[j]

indexOf(id) == CHOOSE i \in DOMAIN sections : sections[i] = id

\* C1: after a scroll-driven recomputation (a frame) at an offset where some
\* region has a positive ratio, activeSection is the region of greatest
\* ratio, the earliest one among equals.
C1_FrameSelectsMostVisible ==
  (lastOp = "frame" /\ mounted /\ somePositive(scrollY))
     => greatestFirst(indexOf(activeSection), scrollY)

C3_ClickSetsSection ==
  lastOp = "click" =>
     /\ clickLatch \in SectionId
     /\ activeSection = clickLatch
     /\ scrollTarget \in {None, clickLatch}

\* C3 witness: a click on a region of ratio zero, while another region is
\* the most visible one, has set activeSection to it.
C3_Witness ==
  /\ lastOp = "click" /\ activeSection = clickLatch
  /\ visibleHeight(indexOf(clickLatch), scrollY) = 0
  /\ somePositive(scrollY) /\ mostVisible(scrollY) # clickLatch
  /\ scrollTarget = clickLatch

\* C4: after a click on X, activeSection stays X as long as no scroll
\* notification has arrived.
C4_ClickHoldsUntilScroll ==
  (mounted /\ clickLatch # None) => activeSection = clickLatch

\* C5: a frame callback registered before the click on X that runs after it
\* (no scroll event having come in between) does not write a value other
\* than X over activeSection = X.
C5_StaleFrameKeepsClick ==
  [][(lastOp' = "frame" /\ mounted /\ clickLatch # None /\ activeSection = clickLatch)
        => ~\E i \in DOMAIN frames :
              /\ frames[i].preClick
              /\ mostVisible(scrollY) # frames[i].captured
              /\ activeSection' # clickLatch]_vars

\* C12: a navigation click on a region X whose element getElementById does
\* not find still sets activeSection to X, and requests no scroll.
C12_MissingTargetStillSelected ==
  (lastOp = "click" /\ ~layout.present[indexOf(clickLatch)])
     => (activeSection = clickLatch /\ scrollTarget = None)

\* C12 witness: a click on a missing region other than the one that was
\* active has just happened.
C12_Witness ==
  /\ lastOp = "click" /\ ~layout.present[indexOf(clickLatch)]
  /\ clickLatch # "hero" /\ activeSection = clickLatch /\ effectPending
  /\ scrollTarget = None

C15_RecomputeTwiceSame ==
  [][(lastOp' = "frame" /\ mounted /\ Len(frames) = 2)
        => activeSection' = handleScroll(frames[1].captured, activeSection)]_vars

\* C16: at most one frame callback of MainLayout is pending at any time.
C16_OnePendingFrame ==
  Len(frames) <= 1

C25_NoRecomputeAfterUnmount ==
  [][~mounted => (lastOp' # "frame" /\ activeSection' = activeSection)]_vars

C7_TriggerOnceLatches ==
  [][(triggerOnce /\ exposed) => exposed']_vars

\* C7 witness: the latch is set and the observer has since reported that the
\* element does not intersect.
C7_Witness ==
  /\ triggerOnce /\ exposed /\ hasTriggered
  /\ hookOp = "notify" /\ lastEntry = "apart"

\* C8: without triggerOnce, the exposed isIntersecting after a notification is
\* the entry's isIntersecting.
C8_TogglesWithEntry ==
  (hookOp = "notify" /\ ~triggerOnce) => exposed = (lastEntry = "intersecting")

\* C8 witness: with reduced motion off throughout, an item was revealed (so
\* the exposed value had gone up on a notification) and a later notification
\* has taken the exposed value down again.
C8_Witness ==
  /\ hookOp = "notify" /\ ~triggerOnce /\ lastEntry = "apart" /\ ~exposed
  /\ reducedAtMount = "no-preference" /\ ~rmChanged
  /\ \E i \in 1..itemCount : visibleItems[i]

\* C9: item i (counted from zero) is never revealed earlier than
\* i * staggerDelay after the exposed isIntersecting became true.
C9_StaggerNoEarlier ==
  [][\A i \in 1..itemCount :
        (visibleItems'[i] /\ ~visibleItems[i]) => elapsed >= (i - 1) * staggerDelay]_vars

\* C9 witness: the last of MaxItems items is revealed exactly
\* (MaxItems - 1) * MaxDelay ticks after the exposed value became true.
C9_Witness ==
  /\ itemCount = MaxItems /\ staggerDelay = MaxDelay
  /\ hookOp = "timer" /\ visibleItems[itemCount]
  /\ elapsed = (MaxItems - 1) * MaxDelay

allVisible == \A i \in 1..itemCount : visibleItems[i]

\* C10 (as claimed): once the exposed isIntersecting is true, every item is
\* eventually revealed unless the component unmounts.
C10_AllRevealed ==
  [](exposed => <>(allVisible \/ ~hookMounted))

\* C10 (amended): once the exposed isIntersecting is true, every item is
\* eventually revealed unless the component unmounts or the exposed value
\* goes back to false first; with triggerOnce it never goes back.
C10_AllRevealedWhileVisible ==
  /\ [](exposed => <>(allVisible \/ ~hookMounted \/ ~exposed))
  /\ []((exposed /\ triggerOnce) => <>(allVisible \/ ~hookMounted))

\* C10 witness: MaxItems items, all revealed, in a mounted component.
C10_Witness ==
  /\ hookMounted /\ exposed /\ itemCount = MaxItems /\ allVisible
  /\ staggerDelay = MaxDelay

\* C11: once the component has unmounted, no stagger timeout is pending and
\* visibleItems never changes again.
C11_UnmountCancelsTimers ==
  [][~hookMounted' => /\ \A i \in 1..itemCount : timers'[i] = Off
                      /\ ~hookMounted => visibleItems' = visibleItems]_vars

\* C11 witness: the component unmounted after the first item was revealed
\* and while the last item's timeout was pending; the last item is not
\* revealed.
C11_Witness ==
  /\ hook = Staggered /\ ~hookMounted /\ hookOp = "unmount"
  /\ triggerOnce /\ exposed
  /\ itemCount = MaxItems /\ staggerDelay = MaxDelay
  /\ visibleItems[1] /\ ~visibleItems[MaxItems]

\* C17: where IntersectionObserver is not defined, once the mount effect has
\* run on an attached element no effect has thrown and the exposed
\* isIntersecting is true.
C17_UnsupportedFailsOpen ==
  (~ioSupported /\ element /\ reducedAtMount # None) => (~erred /\ exposed)

\* C18: at most one observation of the element is active at any time, and
\* none once the component has unmounted.
C18_ObservationsStopped ==
  /\ observations \in {0, 1}
  /\ ~hookMounted => observations = 0

\* C18 witness: the component has rendered with other options while
\* observing, the effect has subscribed again, and one observation is active.
C18_Witness ==
  /\ hookMounted /\ hookOp = "flush" /\ ~obsPending
  /\ observations = 1 /\ ~triggerOnce /\ hasTriggered /\ ~rmChanged
  /\ reducedAtMount = "no-preference"

\* C19: once the component has unmounted, useScrollAnimation's timeout is
\* not pending and shouldAnimate never changes again.
C19_UnmountCancelsAnimation ==
  [][~hookMounted' => /\ animTimer' = Off
                      /\ ~hookMounted => shouldAnimate' = shouldAnimate]_vars

\* C19 witness: the exposed value became true, the animation effect set its
\* timeout (a later notification was delivered), and the component unmounted
\* before animationDelay had passed; shouldAnimate is false.
C19_Witness ==
  /\ hook = Animated /\ ~hookMounted /\ ~erred /\ hookOp = "unmount"
  /\ triggerOnce /\ exposed /\ lastEntry = "apart" /\ ~rmChanged
  /\ reducedAtMount = "no-preference"
  /\ animationDelay = MaxDelay /\ elapsed < MaxDelay
  /\ ~shouldAnimate

\* C20: with triggerOnce, once the exposed isIntersecting is true and the
\* effects of that commit have run, no observer observes the element.
C20_TriggerOnceStopsObserving ==
  (hookMounted /\ triggerOnce /\ exposed /\ ~obsPending /\ ~stagPending) => ~observing

\* C21: the preference the mount effect found decides, for as long as the
\* component is mounted, whether the hook observes its element: it observes
\* exactly when that preference was not "reduce".
C21_PreferenceReadOnce ==
  (hookMounted /\ element /\ reducedAtMount # None /\ ~obsPending)
     => (observing <=> reducedAtMount = "no-preference")

\* C23 (as claimed): no timeout fires in the step that follows a change of
\* itemCount, staggerDelay or animationDelay; the timeouts pending at the
\* change are those of the old configuration.
C23_NoTimerAfterChange ==
  [][(hookOp \in {"restagger", "redelay"}) => (hookOp' \notin {"timer", "animate"})]_vars

\* C23 (amended): once the effect has run again after a change of itemCount,
\* staggerDelay or animationDelay, no timeout of the old configuration is
\* left: every pending timeout belongs to an item of the current itemCount
\* and has no more time left than its delay under the current configuration.
C23_ReconfigureCancelsTimers ==
  (hookMounted /\ ~stagPending) =>
     /\ \A i \in DOMAIN timers : timers[i] # Off => (i <= itemCount /\ timers[i] <= timerDelay(i))
     /\ animTimer # Off => animTimer <= animationDelay

\* C23 witness: with the last item's timeout pending, itemCount went down to
\* one and the stagger effect has run again; the last item is not revealed.
C23_Witness ==
  /\ hook = Staggered /\ hookMounted /\ hookOp = "flush" /\ ~stagPending
  /\ triggerOnce /\ exposed
  /\ Len(visibleItems) = MaxItems /\ itemCount = 1
  /\ visibleItems[1] /\ ~visibleItems[MaxItems]

\* C24: shouldAnimate becomes true only after useScrollAnimation's
\* isIntersecting has been true, and no earlier than animationDelay after it
\* last became true.
C24_AnimateAfterExposedAndDelay ==
  [][(shouldAnimate' /\ ~shouldAnimate) => (everExposed /\ elapsed >= animationDelay)]_vars

\* C24 witness: shouldAnimate has just become true, exactly MaxDelay ticks
\* after the observer reported the element.
C24_Witness ==
  /\ hook = Animated /\ hookOp = "animate" /\ shouldAnimate
  /\ animationDelay = MaxDelay /\ elapsed = MaxDelay
  /\ lastEntry = "intersecting" /\ reducedAtMount = "no-preference" /\ ~rmChanged

\* C26: no step takes a revealed item back, and the revealed items are
\* always the first ones: an item is revealed only if every item before it is.
C26_RevealedPrefix ==
  [][/\ \A i \in DOMAIN visibleItems :
          visibleItems[i] => (i \in DOMAIN visibleItems' /\ visibleItems'[i])
     /\ \A j \in DOMAIN visibleItems' :
          visibleItems'[j] => \A i \in 1..(j - 1) : visibleItems'[i]]_vars

\* C26 witness: itemCount went down from MaxItems to one after two items
\* were revealed, the element left and came back, and a timeout of the new
\* configuration has fired; the last item is not revealed.
C26_Witness ==
  /\ hook = Staggered /\ ~triggerOnce /\ lastEntry = "intersecting" /\ hookOp = "timer"
  /\ itemCount = 1 /\ Len(visibleItems) = MaxItems /\ ~stagPending
  /\ visibleItems[2] /\ ~visibleItems[MaxItems]

\* C27: shouldAnimate never goes from true to false.
C27_AnimateLatches ==
  [][shouldAnimate => shouldAnimate']_vars

\* C27 witness: without triggerOnce, shouldAnimate is true and the observer
\* has since reported that the element left; the exposed value is false.
C27_Witness ==
  /\ hook = Animated /\ shouldAnimate /\ ~triggerOnce
  /\ hookOp = "flush" /\ lastEntry = "apart" /\ ~exposed

\* ------------------------------------------------------------- UI: claims
\* C28: whenever ProjectModal shows a project with at least one image,
\* currentImageIndex is an index of that project's images.
C28_ImageIndexValid ==
  (selectedProject # NoProject /\ isModalOpen /\ imageCounts[selectedProject] > 0)
     => currentImageIndex \in 0..(imageCounts[selectedProject] - 1)

\* C29: once the Modal's effects have run, document.body's overflow is
\* "hidden" exactly when the Modal is mounted with isOpen true.
C29_ScrollLockedWhileOpen ==
  ~modalPending => (bodyOverflow = "hidden" <=> (modalMounted /\ isOpen))

\* C29 witness: the Modal is open and has rendered with another onClose; its
\* effect has run again and the page is locked.
C29_Witness ==
  /\ modalMounted /\ isOpen /\ onClose = "closeB" /\ uiOp = "effect"
  /\ ~modalPending /\ bodyOverflow = "hidden" /\ keydownListener

\* C30: copiedEmail is true during the CopiedTimeout seconds that follow the
\* last successful copy.
C30_CopiedForTwoSeconds ==
  (sinceCopy # Off /\ sinceCopy < CopiedTimeout) => copiedEmail

====
